---------------------------- MODULE Spec2Model ----------------------------
(***************************************************************************)
(* A model of partition() of dlstorage/partition.py: the candidate cutting *)
(* points, the weighted segments, the segment graph and the hand-written   *)
(* dijkstra search with its linear minimum scan over the unvisited set.    *)
(*                                                                         *)
(* A tag is the tuple <<label, start, end>>, a segment the tuple           *)
(* <<cost, start, end>>: Python's tag[0], tag[1], tag[2] are tag[1],       *)
(* tag[2], tag[3] here.  A dict is a function whose DOMAIN is its key set. *)
(* Weights are integers.  A Python set is iterated in an order the         *)
(* language does not fix: every place where the order can matter is a      *)
(* nondeterministic choice.                                                *)
(***************************************************************************)
EXTENDS Integers, Sequences, FiniteSets, TLC

VARIABLES
    tags,            \* argument: set of <<label, start, end>>
    no_frames,       \* argument
    cost_table,      \* argument: label -> weight
    default_cost,    \* argument
    penalty,         \* argument
    cutting_points,  \* Step 1
    graph,           \* Step 4: start -> (end -> weight)
    dist,            \* dijkstra: vertex -> distance, partial
    prev,            \* dijkstra: vertex -> predecessor, partial
    unvisited,       \* dijkstra: set of vertices
    current,         \* dijkstra: the vertex selected last
    iterations,      \* passes of the while loop begun in this call
    path,            \* the list returned
    pc,              \* "call" | "search" | "found" | "returned" | "KeyError"
    round,           \* 1: the first call, 2: a further call by the same caller
    kind,            \* what the further call is: "same" | "penalty" | "sub"
    earlier          \* arguments and result of the first call

args == <<tags, no_frames, cost_table, default_cost, penalty>>
locals == <<cutting_points, graph, dist, prev, unvisited, current, iterations, path>>
caller == <<round, kind, earlier>>
vars == <<args, locals, pc, caller>>

-----------------------------------------------------------------------------
(* Bounds of the inputs explored. *)
MaxFrames == 3
MaxTags == 2
MaxWeight == 2
MaxPenalty == 2
(* The raw (unvalidated) inputs are explored within their own bounds. *)
MaxRawFrames == 2
MaxRawTags == 1

Labels == {"a", "b"}
TableLabels == {"a"}

(* Defaults of the signature. *)
DefaultCost == 1
DefaultPenalty == 2

EmptyDict == <<>>

-----------------------------------------------------------------------------
(* Step 1: cutting_points = {0, no_frames} plus every start and end. *)
CuttingPoints(tgs, n) ==
    {0, n} \cup {tag[2] : tag \in tgs} \cup {tag[3] : tag \in tgs}

(* Step 2: every pair start < end, carrying the penalty as its first cost. *)
PossibleSegments(points, pen) ==
    {<<pen, pair[1], pair[2]>> :
        pair \in {pr \in points \X points : pr[1] < pr[2]}}

(* A variant of Skipped with the comparisons off by one: a tag that only
   touches the segment is not skipped. *)
Skipped_Touching(tag, segment) == tag[2] > segment[3] \/ tag[3] < segment[2]

(* Step 3, line 56: the tag is skipped when it does not overlap the segment. *)
Skipped(tag, segment) == tag[2] >= segment[3] \/ tag[3] <= segment[2]

(* Step 3, lines 59-62: the weight of a label. *)
LabelWeight(label, ct, dc) == IF label \in DOMAIN ct THEN ct[label] ELSE dc

(* A variant of AddTag that charges only the frames of the segment the tag
   covers. *)
AddTag_OverlapLength(segment, tag, ct, dc) ==
    LET from == IF tag[2] > segment[2] THEN tag[2] ELSE segment[2]
        to == IF tag[3] < segment[3] THEN tag[3] ELSE segment[3]
    IN  <<segment[1] + LabelWeight(tag[1], ct, dc) * (to - from), segment[2],
          segment[3]>>

(* Step 3, lines 58-62: one overlapping tag added to the running segment. *)
AddTag(segment, tag, ct, dc) ==
    LET length == segment[3] - segment[2]
    IN  <<segment[1] + LabelWeight(tag[1], ct, dc) * length, segment[2], segment[3]>>

(* Step 3, lines 55-62: the inner loop over the tags, one tag at a time. *)
RECURSIVE AssignCost(_, _, _, _)
AssignCost(segment, rest, ct, dc) ==
    IF rest = {} THEN segment
    ELSE LET tag == CHOOSE t \in rest : TRUE
             next == IF Skipped(tag, segment) THEN segment
                     ELSE AddTag(segment, tag, ct, dc)
         IN  AssignCost(next, rest \ {tag}, ct, dc)

WeightedSegments(segments, tgs, ct, dc) ==
    {AssignCost(segment, tgs, ct, dc) : segment \in segments}

(* Step 4: a key per segment start, then one entry per segment. *)
BuildGraph(weighted) ==
    [start \in {s[2] : s \in weighted} |->
        [end \in {s[3] : s \in {w \in weighted : w[2] = start}} |->
            (CHOOSE s \in weighted : s[2] = start /\ s[3] = end)[1]]]

(* A variant of InitialUnvisited that forgets the edge ends. *)
InitialUnvisited_StartsOnly(g) == DOMAIN g

(* dijkstra, lines 82-86: every edge start and every edge end. *)
InitialUnvisited(g) ==
    DOMAIN g \cup UNION {DOMAIN g[s] : s \in DOMAIN g}

(* A variant of Improves that also replaces an entry of equal distance. *)
Improves_OrEqual(d, cur, neighbor, cost) ==
    neighbor \notin DOMAIN d \/ d[cur] + cost <= d[neighbor]

(* A variant of Improves that compares the edge alone, without dist[current]. *)
Improves_EdgeOnly(d, cur, neighbor, cost) ==
    neighbor \notin DOMAIN d \/ cost < d[neighbor]

(* dijkstra, line 94: whether the neighbor's entry is replaced. *)
Improves(d, cur, neighbor, cost) ==
    neighbor \notin DOMAIN d \/ d[cur] + cost < d[neighbor]

(* dijkstra, lines 92-96: all neighbors of cur relaxed; the neighbors are
   distinct keys, so the order of the loop does not matter. *)
Improved(g, d, cur) == {nb \in DOMAIN g[cur] : Improves(d, cur, nb, g[cur][nb])}

RelaxDist(g, d, cur) ==
    [v \in DOMAIN d \cup Improved(g, d, cur) |->
        IF v \in Improved(g, d, cur) THEN d[cur] + g[cur][v] ELSE d[v]]

RelaxPrev(g, d, p, cur) ==
    [v \in DOMAIN p \cup Improved(g, d, cur) |->
        IF v \in Improved(g, d, cur) THEN cur ELSE p[v]]

(* dijkstra, lines 98-102: the scan keeps the first vertex it meets whose
   distance is below everything met before it, so it ends on a vertex of
   minimum distance, and on any of them under some iteration order.  With
   nothing left to scan, current is not assigned. *)
ScanResults(unv, d, cur) ==
    IF unv = {} THEN {cur}
    ELSE {v \in unv : \A u \in unv : d[v] <= d[u]}

(* A variant of PathTo without path.reverse(). *)
RECURSIVE PathTo_Unreversed(_, _, _)
PathTo_Unreversed(p, v, start) ==
    IF v = start THEN <<start>> ELSE <<v>> \o PathTo_Unreversed(p, p[v], start)

(* A variant of PathTo that leaves the start out of the list. *)
RECURSIVE PathTo_WithoutStart(_, _, _)
PathTo_WithoutStart(p, v, start) ==
    IF v = start THEN <<>> ELSE Append(PathTo_WithoutStart(p, p[v], start), v)

(* dijkstra, lines 108-113: the chain of prev from end back to start,
   reversed.  Every prev entry is the start of an edge into its key, so the
   chain decreases and ends. *)
RECURSIVE PathTo(_, _, _)
PathTo(p, v, start) ==
    IF v = start THEN <<start>> ELSE Append(PathTo(p, p[v], start), v)

RECURSIVE ChainDefined(_, _, _)
ChainDefined(p, v, start) ==
    v = start \/ (v \in DOMAIN p /\ ChainDefined(p, p[v], start))

-----------------------------------------------------------------------------
(* The inputs. *)
RECURSIVE SubsetsUpTo(_, _)
SubsetsUpTo(S, k) ==
    IF k = 0 THEN {{}}
    ELSE LET P == SubsetsUpTo(S, k - 1)
         IN  P \cup {T \cup {x} : T \in P, x \in S}

WellFormedTags(n) ==
    {tag \in Labels \X (0..n) \X (0..n) : tag[2] < tag[3]}

IsWellFormed(tgs, n) ==
    n > 0 /\ \A tag \in tgs : 0 <= tag[2] /\ tag[2] < tag[3] /\ tag[3] <= n

CostTables == UNION {[D -> 0..MaxWeight] : D \in SUBSET TableLabels}

(* The two inputs test() asserts a result for. *)
Test1Tags == {<<"cat", 3, 9>>, <<"dog", 5, 8>>, <<"people", 0, 6>>}
Test1Frames == 9

Test2Tags ==
    {<<"cat", 0, 1>>, <<"cat", 2, 4>>, <<"cat", 6, 8>>, <<"dog", 0, 3>>,
     <<"dog", 6, 8>>, <<"people", 0, 2>>, <<"people", 4, 6>>}
Test2Frames == 8
TestPenalty == 3

(* Any tag the caller can pass. *)
RawTags(n) ==
    Labels \X ((0 - 1)..(n + 1)) \X ((0 - 1)..(n + 1))

NoCall == [path |-> <<>>]

Fresh ==
    /\ cutting_points = {}
    /\ graph = EmptyDict
    /\ dist = EmptyDict
    /\ prev = EmptyDict
    /\ unvisited = {}
    /\ current = 0
    /\ iterations = 0
    /\ path = <<>>
    /\ pc = "call"
    /\ round = 1
    /\ kind = "first"
    /\ earlier = NoCall

(* Every well-formed input within the bounds. *)
InitBounded ==
    /\ no_frames \in 1..MaxFrames
    /\ tags \in SubsetsUpTo(WellFormedTags(no_frames), MaxTags)
    /\ cost_table \in CostTables
    /\ default_cost \in 0..MaxWeight
    /\ penalty \in 0..MaxPenalty
    /\ Fresh

(* The calls of test(): cost_table and default_cost left to their defaults. *)
InitTest ==
    /\ \/ tags = Test1Tags /\ no_frames = Test1Frames
       \/ tags = Test2Tags /\ no_frames = Test2Frames
    /\ cost_table = EmptyDict
    /\ default_cost = DefaultCost
    /\ penalty = TestPenalty
    /\ Fresh

Init == InitBounded \/ InitTest

(* Any tag interval: nothing in partition() validates the tags. *)
InitRaw ==
    /\ no_frames \in 1..MaxRawFrames
    /\ tags \in SubsetsUpTo(RawTags(no_frames), MaxRawTags)
    /\ cost_table = EmptyDict
    /\ default_cost = DefaultCost
    /\ penalty \in {0, DefaultPenalty}
    /\ Fresh

-----------------------------------------------------------------------------
(* partition(), lines 31-73, and dijkstra up to the loop, lines 80-89. *)
Enter ==
    /\ pc = "call"
    /\ LET points == CuttingPoints(tags, no_frames)
           weighted == WeightedSegments(PossibleSegments(points, penalty),
                                        tags, cost_table, default_cost)
           g == BuildGraph(weighted)
       IN  /\ cutting_points' = points
           /\ graph' = g
           /\ unvisited' = InitialUnvisited(g)
    /\ dist' = (0 :> 0)
    /\ prev' = EmptyDict
    /\ current' = 0
    /\ iterations' = 0
    /\ pc' = "search"
    /\ UNCHANGED <<args, path, caller>>

(* One pass of the while loop, lines 91-105.  A KeyError ends the call:
   unvisited.remove of a vertex not in the set (line 91), graph[current] of a
   vertex with no adjacency entry (line 92), dist[vertex] of a vertex with no
   distance in the scan (line 100). *)
Visit ==
    /\ pc = "search"
    /\ iterations' = iterations + 1
    /\ IF current \notin unvisited
       THEN /\ pc' = "KeyError"
            /\ UNCHANGED <<dist, prev, unvisited, current>>
       ELSE IF current \notin DOMAIN graph
       THEN /\ pc' = "KeyError"
            /\ unvisited' = unvisited \ {current}
            /\ UNCHANGED <<dist, prev, current>>
       ELSE /\ unvisited' = unvisited \ {current}
            /\ dist' = RelaxDist(graph, dist, current)
            /\ prev' = RelaxPrev(graph, dist, prev, current)
            /\ IF \E v \in unvisited' : v \notin DOMAIN dist'
               THEN /\ pc' = "KeyError"
                    /\ UNCHANGED current
               ELSE \E v \in ScanResults(unvisited', dist', current) :
                        /\ current' = v
                        /\ pc' = IF v = no_frames THEN "found" ELSE "search"
    /\ UNCHANGED <<args, cutting_points, graph, path, caller>>

(* Lines 107-116: the path is rebuilt from prev and returned. *)
ReturnPath ==
    /\ pc = "found"
    /\ IF ChainDefined(prev, current, 0)
       THEN /\ path' = PathTo(prev, current, 0)
            /\ pc' = "returned"
       ELSE /\ path' = path
            /\ pc' = "KeyError"
    /\ UNCHANGED <<args, cutting_points, graph, dist, prev, unvisited, current,
                   iterations, caller>>

NextCall == Enter \/ Visit \/ ReturnPath

SpecRaw == InitRaw /\ [][NextCall]_vars

-----------------------------------------------------------------------------
(* The caller.  test() calls partition() again once a call has returned;
   every call starts from fresh locals.  The further calls explored are the
   ones the relational properties of the function are about. *)
Returned == [tags |-> tags, no_frames |-> no_frames, penalty |-> penalty,
             path |-> path]

CallWith(tgs, n, pen, k) ==
    /\ pc = "returned"
    /\ round = 1
    /\ tags' = tgs
    /\ no_frames' = n
    /\ penalty' = pen
    /\ UNCHANGED <<cost_table, default_cost>>
    /\ cutting_points' = {}
    /\ graph' = EmptyDict
    /\ dist' = EmptyDict
    /\ prev' = EmptyDict
    /\ unvisited' = {}
    /\ current' = 0
    /\ iterations' = 0
    /\ path' = <<>>
    /\ pc' = "call"
    /\ round' = 2
    /\ kind' = k
    /\ earlier' = Returned

(* The same arguments once more. *)
CallSame == CallWith(tags, no_frames, penalty, "same")

(* The same tags and costs under a higher penalty. *)
CallPenalty ==
    \E p2 \in (penalty + 1)..MaxPenalty : CallWith(tags, no_frames, p2, "penalty")

(* The tags that overlap [a, b), clipped to it and shifted by -a. *)
Larger(x, y) == IF x >= y THEN x ELSE y
Smaller(x, y) == IF x <= y THEN x ELSE y
ClipTags(tgs, a, b) ==
    {<<tag[1], Larger(tag[2], a) - a, Smaller(tag[3], b) - a>> :
        tag \in {t \in tgs : t[2] < b /\ t[3] > a}}

(* The sub-interval between two consecutive points of the list returned. *)
CallSub ==
    \E i \in 1..(Len(path) - 1) :
        CallWith(ClipTags(tags, path[i], path[i + 1]), path[i + 1] - path[i],
                 penalty, "sub")

(* One call of partition(). *)
Spec == Init /\ [][NextCall]_vars

(* A call, then the same call again. *)
NextSame == NextCall \/ CallSame
SpecSame == Init /\ [][NextSame]_vars

(* A call, then a call under a higher penalty. *)
NextPenalty == NextCall \/ CallPenalty
SpecPenalty == Init /\ [][NextPenalty]_vars

(* A call, then a call on one of the segments it returned. *)
NextSub == NextCall \/ CallSub
SpecSub == Init /\ [][NextSub]_vars

-----------------------------------------------------------------------------
(* What the properties are stated with: the candidate points, the weight the
   specification gives a segment, and the paths over the candidates. *)
Candidates == {0, no_frames} \cup UNION {{tag[2], tag[3]} : tag \in tags}

WellFormed == IsWellFormed(tags, no_frames)

RECURSIVE SumOf(_)
SumOf(f) ==
    IF DOMAIN f = {} THEN 0
    ELSE LET x == CHOOSE y \in DOMAIN f : TRUE
         IN  f[x] + SumOf([y \in DOMAIN f \ {x} |-> f[y]])

Overlapping(u, v) == {tag \in tags : tag[2] < v /\ tag[3] > u}

WeightOf(label) ==
    IF label \in DOMAIN cost_table THEN cost_table[label] ELSE default_cost

SegmentCost(u, v) ==
    SumOf([tag \in Overlapping(u, v) |-> WeightOf(tag[1]) * (v - u)])

EdgeWeight(u, v) == SegmentCost(u, v) + penalty

(* The consecutive pairs of the increasing sequence through the points V. *)
Steps(V) ==
    {pr \in V \X V : pr[1] < pr[2] /\ ~\E w \in V : pr[1] < w /\ w < pr[2]}

TotalWeight(V) == SumOf([pr \in Steps(V) |-> EdgeWeight(pr[1], pr[2])])

(* Every increasing sequence of candidates from 0 to no_frames, as its set. *)
AllPaths == {S \cup {0, no_frames} : S \in SUBSET Candidates}

Range(sq) == {sq[i] : i \in 1..Len(sq)}

StrictlyIncreasing(sq) == \A i \in 1..(Len(sq) - 1) : sq[i] < sq[i + 1]

(* C1: for a well-formed input the list returned is a path from 0 to
   no_frames over the candidate cut points, and its total weight (segment
   cost plus penalty per step) is the minimum over all increasing sequences
   of candidates from 0 to no_frames. *)
C1_MinimumWeightPath ==
    (WellFormed /\ pc = "returned") =>
        /\ Len(path) >= 2
        /\ path[1] = 0
        /\ path[Len(path)] = no_frames
        /\ Range(path) \subseteq Candidates
        /\ StrictlyIncreasing(path)
        /\ \A V \in AllPaths : TotalWeight(Range(path)) <= TotalWeight(V)

(* A call has returned a path with an interior cut that is strictly better
   than the single segment, and some other path is strictly worse than it. *)
C1_Witness ==
    /\ WellFormed /\ pc = "returned"
    /\ Len(path) >= 3
    /\ TotalWeight(Range(path)) < TotalWeight({0, no_frames})
    /\ \E V \in AllPaths :
          V # {0, no_frames} /\ TotalWeight(Range(path)) < TotalWeight(V)

IsTest1 ==
    /\ tags = Test1Tags /\ no_frames = Test1Frames /\ penalty = TestPenalty
    /\ cost_table = EmptyDict /\ default_cost = DefaultCost

(* C2: the first call of test() returns exactly [0, 3, 9], however the ties
   of the minimum scan are resolved. *)
C2_Test1Result == (IsTest1 /\ pc = "returned") => path = <<0, 3, 9>>

(* The first call of test() has returned, and [0, 3, 6, 9] weighs the same as
   the path returned. *)
C2_Witness ==
    /\ IsTest1 /\ pc = "returned"
    /\ TotalWeight({0, 3, 6, 9}) = TotalWeight(Range(path))

(* C3: a call under a higher penalty returns a list no longer than the call
   under the lower penalty did. *)
C3_MonotonicPenalty ==
    (round = 2 /\ kind = "penalty" /\ pc = "returned") =>
        /\ earlier.penalty < penalty
        /\ Len(path) <= Len(earlier.path)

(* The higher penalty has removed a cut. *)
C3_Witness ==
    /\ round = 2 /\ kind = "penalty" /\ pc = "returned"
    /\ Len(earlier.path) >= 3
    /\ Len(path) < Len(earlier.path)

(* C4: partitioning the sub-interval between two consecutive points of the
   list returned, with the tags clipped to it, returns no interior cut. *)
C4_SubSegmentNotCut ==
    (round = 2 /\ kind = "sub" /\ pc = "returned") => path = <<0, no_frames>>

(* The sub-interval of a cut clip has been partitioned, it holds a candidate
   point of its own, and two tags of the clip fell together when clipped. *)
C4_Witness ==
    /\ round = 2 /\ kind = "sub" /\ pc = "returned"
    /\ Len(earlier.path) >= 3
    /\ Cardinality(cutting_points) >= 3
    /\ \E t1 \in earlier.tags : \E t2 \in earlier.tags :
          /\ t1 # t2
          /\ \E a \in 0..earlier.no_frames :
                ClipTags({t1}, a, a + no_frames) = ClipTags({t2}, a, a + no_frames)
                /\ ClipTags({t1}, a, a + no_frames) # {}

C6_MalformedNeverReturns == ~WellFormed => pc # "returned"

(* C7: the list returned is strictly increasing, holds candidate cut points
   only, and ends with no_frames. *)
C7_IncreasingCandidates ==
    (WellFormed /\ pc = "returned") =>
        /\ Len(path) >= 1
        /\ StrictlyIncreasing(path)
        /\ \A i \in 1..Len(path) : path[i] \in Candidates
        /\ path[Len(path)] = no_frames

(* A list with two interior cuts has been returned. *)
C7_Witness == WellFormed /\ pc = "returned" /\ Len(path) >= 4

(* C8, as stated: 0 is never in the list returned. *)
C8_ZeroExcluded ==
    (WellFormed /\ pc = "returned") => \A i \in 1..Len(path) : path[i] # 0

(* C8, amended: the list returned begins with 0, the start of the path, and
   holds 0 nowhere else. *)
C8_ZeroFirst ==
    (WellFormed /\ pc = "returned") =>
        /\ Len(path) >= 2
        /\ path[1] = 0
        /\ \A i \in 2..Len(path) : path[i] # 0

(* A list with an interior cut has been returned: 0, the cut, no_frames. *)
C8_Witness == WellFormed /\ pc = "returned" /\ Len(path) = 3

(* C9: the graph has an edge u -> v exactly for the candidates u < v, and the
   edge weighs the penalty plus, for every tag overlapping [u, v), the
   weight of its label times the full length v - u. *)
C9_GraphEdges ==
    (WellFormed /\ pc # "call") =>
        /\ DOMAIN graph \subseteq Candidates
        /\ \A u \in DOMAIN graph : DOMAIN graph[u] \subseteq Candidates
        /\ \A u \in Candidates : \A v \in Candidates :
              (u < v) <=> (u \in DOMAIN graph /\ v \in DOMAIN graph[u])
        /\ \A u \in DOMAIN graph : \A v \in DOMAIN graph[u] :
              graph[u][v] = EdgeWeight(u, v)
        /\ no_frames \in DOMAIN graph[0]

(* The graph of a clip is built: a segment is overlapped in part by a tag of
   a label the table holds and by a tag of a label it does not hold, and
   another segment is overlapped by no tag. *)
C9_Witness ==
    /\ WellFormed /\ pc = "search"
    /\ \E u \in DOMAIN graph : \E v \in DOMAIN graph[u] :
          /\ \E tag \in Overlapping(u, v) :
                tag[1] \in DOMAIN cost_table /\ (tag[2] > u \/ tag[3] < v)
                /\ cost_table[tag[1]] > 0
          /\ \E tag \in Overlapping(u, v) :
                tag[1] \notin DOMAIN cost_table /\ default_cost > 0
    /\ \E u \in DOMAIN graph : \E v \in DOMAIN graph[u] :
          Overlapping(u, v) = {} /\ graph[u][v] = penalty

(* C10: the search raises nothing (what it removes is in unvisited, what it
   expands has an adjacency entry, what the scan reads has a distance),
   begins at most (number of candidates - 1) passes of its loop, each of
   which selects a vertex, and leaves the loop on no_frames. *)
C10_SearchTerminates ==
    WellFormed =>
        /\ pc # "KeyError"
        /\ iterations <= Cardinality(Candidates) - 1
        /\ pc \in {"found", "returned"} => current = no_frames
        /\ pc = "search" => current \in unvisited /\ current \in DOMAIN graph
        /\ pc = "search" => \A v \in unvisited \ {current} :
                                v \in DOMAIN dist \/ v \in DOMAIN graph[current]

(* A search has returned after selecting every candidate but 0. *)
C10_Witness ==
    /\ WellFormed /\ pc = "returned"
    /\ Cardinality(Candidates) >= 4
    /\ iterations = Cardinality(Candidates) - 1

=============================================================================
